---------------------------- MODULE Spec2Model ----------------------------
(***************************************************************************)
(* PadelPoint API: the match store and the request handlers that read and  *)
(* write it, in the three revisions the repository holds:                  *)
(*   - the band-based revision     (src/functions/index.js, lines 1-327)   *)
(*   - the earlier minimal revision (src/functions/index.js, lines 329-470)*)
(*   - the level-aware revision    (src/unnamed/part_000)                  *)
(* A handler is a sequence of steps, one per awaited store operation; the  *)
(* synchronous code that follows an await belongs to that step.  Handlers  *)
(* of different requests interleave at these steps.                        *)
(*                                                                         *)
(* Numeric levels are held in half-point units (level 4.5 is 9).           *)
(***************************************************************************)
EXTENDS Integers, Sequences, FiniteSets, TLC

VARIABLES
    matches,    \* collection 'matches': document id -> document
    nextId,     \* number of document ids handed out by add()
    profiles,   \* collection 'profiles': uid -> document
    req,        \* the handlers in flight: slot -> handler position and locals
    resp        \* the response most recently sent

vars == <<matches, nextId, profiles, req, resp>>

(***************************** bounds **************************************)
MaxReq == 2         \* handlers in flight at once
MaxMatches == 1     \* documents add() may create

Slots == 1..MaxReq
MatchIds == 1..MaxMatches

(************************ JavaScript values ********************************)
Undef == "undefined"        \* a field missing from a request body
NullStr == "null"           \* null in a string-valued field
NaN == 0 - 99               \* a number-valued field that holds no number
Null == 0                   \* null in a rank field (BAND_RANK[b] ?? null)

Falsy(x) == x \in {Undef, NullStr, ""}          \* !x for strings
Nullish(x) == x \in {Undef, NullStr}            \* x ?? ...
OrElse(x, d) == IF Falsy(x) THEN d ELSE x       \* x || d
Coalesce(x, d) == IF Nullish(x) THEN d ELSE x   \* x ?? d
IsNumber(x) == x # NaN                          \* typeof x === 'number'

Trim(s) == CASE s = " A " -> "A"
             [] s = "  " -> ""
             [] OTHER -> s

Range(s) == {s[i] : i \in 1..Len(s)}
Includes(players, uid) == uid \in Range(players)

\* mutant: the element is appended whether or not the array holds it
arrayUnion_Push(players, uid) == Append(players, uid)

\* FieldValue.arrayUnion(uid) applied to the stored array
arrayUnion(players, uid) ==
    IF Includes(players, uid) THEN players ELSE Append(players, uid)

\* FieldValue.arrayRemove(uid) applied to the stored array
arrayRemove(players, uid) == SelectSeq(players, LAMBDA x : x # uid)

(**************************** the store ************************************)
Exists(id) == id \in DOMAIN matches

\* collection.add(doc): a fresh id
Added(doc) == (nextId + 1) :> doc @@ matches

\* ref.update(fields) on an existing document
Put(id, doc) == [matches EXCEPT ![id] = doc]

\* ref.delete()
Deleted(id) == [i \in DOMAIN matches \ {id} |-> matches[i]]

(*************************** handlers **************************************)
NoLoc == [none |-> TRUE]
Idle == [kind |-> "idle", uid |-> "-", id |-> 0, pc |-> "idle", loc |-> NoLoc]
NoResp == [kind |-> "none", code |-> 0, msg |-> ""]

IsIdle(s) == req[s].pc = "idle"

\* res.status(code).json({message: msg}): the handler of slot s ends
Respond(s, kind, code, msg) ==
    /\ resp' = [kind |-> kind, code |-> code, msg |-> msg]
    /\ req' = [req EXCEPT ![s] = Idle]

\* the handler suspends at its next await
Await(s, kind, uid, id, pc, loc) ==
    /\ req' = [req EXCEPT ![s] = [kind |-> kind, uid |-> uid, id |-> id,
                                  pc |-> pc, loc |-> loc]]
    /\ UNCHANGED resp

At(s, kind, pc) == req[s].kind = kind /\ req[s].pc = pc

Init ==
    /\ matches = <<>>
    /\ nextId = 0
    /\ profiles = <<>>
    /\ req = [s \in Slots |-> Idle]
    /\ resp = NoResp

(***************************************************************************)
(* Band-based revision, src/functions/index.js lines 1-327                 *)
(***************************************************************************)
BAND_RANK == ("8va" :> 1) @@ ("7ma" :> 2) @@ ("6ta" :> 3) @@
             ("5ta" :> 4) @@ ("4ta" :> 5) @@ ("3ra" :> 6)

\* names every object literal inherits from Object.prototype; BAND_RANK[b] is
\* then a function, which ?? keeps
ObjectPrototype == {"constructor", "toString"}
Fn == 0 - 1                 \* a function where a rank is expected

rankOf(b) ==
    IF b \in DOMAIN BAND_RANK THEN BAND_RANK[b]
    ELSE IF b \in ObjectPrototype THEN Fn
    ELSE Null

\* docData of POST /matches
BandDocData(uid, p) ==
    LET players == <<uid>>
        levelMinBand == OrElse(p.levelMin, "8va")
        levelMaxBand == OrElse(p.levelMax, "3ra")
    IN  [title |-> Trim(OrElse(p.title, "Partido")),
         date |-> OrElse(p.date, NullStr),
         time |-> OrElse(p.time, NullStr),
         location |-> OrElse(p.location, NullStr),
         mode |-> "2v2",
         zone |-> OrElse(p.zone, NullStr),
         levelMin |-> levelMinBand,
         levelMax |-> levelMaxBand,
         levelMinRank |-> rankOf(levelMinBand),
         levelMaxRank |-> rankOf(levelMaxBand),
         createdBy |-> uid,
         maxPlayers |-> 4,
         players |-> players,
         status |-> IF Len(players) >= 4 THEN "full" ELSE "open"]

\* POST /matches: db.collection('matches').add(docData)
BandCreate_add(s, uid, p) ==
    /\ IsIdle(s)
    /\ nextId < MaxMatches
    /\ matches' = Added(BandDocData(uid, p))
    /\ nextId' = nextId + 1
    /\ Await(s, "create", uid, nextId + 1, "get", NoLoc)
    /\ UNCHANGED profiles

\* POST /matches: ref.get() and the 201 response
BandCreate_get(s) ==
    /\ At(s, "create", "get")
    /\ Respond(s, "create", 201, "created")
    /\ UNCHANGED <<matches, nextId, profiles>>

\* Number(m.maxPlayers) || 4
BandMaxPlayers(m) == IF m.maxPlayers \in {NaN, 0} THEN 4 ELSE m.maxPlayers

\* the status the join writes, from the players array it read
BandJoinStatus(players, maxPlayers) ==
    IF Len(players) + 1 >= maxPlayers THEN "full" ELSE "open"

\* mutant: the join does not look at the number of players
BandJoin_get_NoCapacity(s, uid, id) ==
    /\ IsIdle(s)
    /\ UNCHANGED <<matches, nextId, profiles>>
    /\ IF ~Exists(id)
       THEN Respond(s, "join", 404, "Partido no encontrado")
       ELSE LET m == matches[id]
            IN  IF m.createdBy = uid
                THEN Respond(s, "join", 400, "Sos el creador")
                ELSE IF Includes(m.players, uid)
                THEN Respond(s, "join", 400, "Ya estas en el partido")
                ELSE Await(s, "join", uid, id, "update",
                           [players |-> m.players, maxPlayers |-> BandMaxPlayers(m)])

\* POST /matches/:id/join: ref.get() and the checks on the snapshot
BandJoin_get(s, uid, id) ==
    /\ IsIdle(s)
    /\ UNCHANGED <<matches, nextId, profiles>>
    /\ IF ~Exists(id)
       THEN Respond(s, "join", 404, "Partido no encontrado")
       ELSE LET m == matches[id]
                players == m.players
                maxPlayers == BandMaxPlayers(m)
            IN  IF m.createdBy = uid
                THEN Respond(s, "join", 400, "Sos el creador")
                ELSE IF Includes(players, uid)
                THEN Respond(s, "join", 400, "Ya estas en el partido")
                ELSE IF Len(players) >= maxPlayers
                THEN Respond(s, "join", 400, "Partido lleno")
                ELSE Await(s, "join", uid, id, "update",
                           [players |-> players, maxPlayers |-> maxPlayers])

\* mutant: the write applies the capacity check again, on the stored array
BandJoin_update_Checked(s) ==
    /\ At(s, "join", "update")
    /\ UNCHANGED <<nextId, profiles>>
    /\ LET uid == req[s].uid
           id == req[s].id
       IN  IF ~Exists(id)
           THEN /\ UNCHANGED matches
                /\ Respond(s, "join", 500, "update failed")
           ELSE IF Len(matches[id].players) >= req[s].loc.maxPlayers
           THEN /\ UNCHANGED matches
                /\ Respond(s, "join", 400, "Partido lleno")
           ELSE /\ matches' = Put(id, [matches[id] EXCEPT
                        !.players = arrayUnion(@, uid),
                        !.status = BandJoinStatus(req[s].loc.players,
                                                  req[s].loc.maxPlayers)])
                /\ Respond(s, "join", 200, "Te uniste")

\* POST /matches/:id/join: ref.update({players: arrayUnion(uid), status})
BandJoin_update(s) ==
    /\ At(s, "join", "update")
    /\ UNCHANGED <<nextId, profiles>>
    /\ LET uid == req[s].uid
           id == req[s].id
       IN  IF ~Exists(id)
           THEN /\ UNCHANGED matches
                /\ Respond(s, "join", 500, "update failed")
           ELSE /\ matches' = Put(id, [matches[id] EXCEPT
                        !.players = arrayUnion(@, uid),
                        !.status = BandJoinStatus(req[s].loc.players,
                                                  req[s].loc.maxPlayers)])
                /\ Respond(s, "join", 200, "Te uniste")

\* POST /matches/:id/leave: ref.get() and the checks on the snapshot
BandLeave_get(s, uid, id) ==
    /\ IsIdle(s)
    /\ UNCHANGED <<matches, nextId, profiles>>
    /\ IF ~Exists(id)
       THEN Respond(s, "leave", 404, "Partido no encontrado")
       ELSE LET m == matches[id]
            IN  IF ~Includes(m.players, uid)
                THEN Respond(s, "leave", 400, "No estabas en el partido")
                ELSE IF m.createdBy = uid
                THEN Respond(s, "leave", 400,
                             "El creador debe editar o eliminar")
                ELSE Await(s, "leave", uid, id, "update", NoLoc)

\* mutant: the leave forgets to reset the status
BandLeaveWrite_KeepStatus(m, uid) == [m EXCEPT !.players = arrayRemove(@, uid)]

\* mutant: the leave also renames the match
BandLeaveWrite_Renames(m, uid) ==
    [m EXCEPT !.players = arrayRemove(@, uid), !.status = "open", !.title = "Abierto"]

\* the fields the leave writes
BandLeaveWrite(m, uid) ==
    [m EXCEPT !.players = arrayRemove(@, uid), !.status = "open"]

\* POST /matches/:id/leave: ref.update({players: arrayRemove(uid), status: 'open'})
BandLeave_update(s) ==
    /\ At(s, "leave", "update")
    /\ UNCHANGED <<nextId, profiles>>
    /\ LET uid == req[s].uid
           id == req[s].id
       IN  IF ~Exists(id)
           THEN /\ UNCHANGED matches
                /\ Respond(s, "leave", 500, "update failed")
           ELSE /\ matches' = Put(id, BandLeaveWrite(matches[id], uid))
                /\ Respond(s, "leave", 200, "Saliste del partido")

\* patch of PUT /matches/:id, from the request body and the snapshot
BandPatch(p, m) ==
    [title |-> Coalesce(p.title, m.title),
     date |-> Coalesce(p.date, m.date),
     time |-> Coalesce(p.time, m.time),
     location |-> Coalesce(p.location, m.location),
     zone |-> Coalesce(p.zone, m.zone),
     levelMin |-> Coalesce(p.levelMin, m.levelMin),
     levelMax |-> Coalesce(p.levelMax, m.levelMax),
     levelMinRank |-> IF Falsy(p.levelMin) THEN m.levelMinRank ELSE rankOf(p.levelMin),
     levelMaxRank |-> IF Falsy(p.levelMax) THEN m.levelMaxRank ELSE rankOf(p.levelMax)]

\* ref.update(patch): the fields of the patch replace the stored ones
Merge(m, patch) ==
    [f \in DOMAIN m |-> IF f \in DOMAIN patch THEN patch[f] ELSE m[f]]

\* mutant: the edit does not compare createdBy with the caller
BandEdit_get_AnyCaller(s, uid, id, p) ==
    /\ IsIdle(s)
    /\ UNCHANGED <<matches, nextId, profiles>>
    /\ IF ~Exists(id)
       THEN Respond(s, "edit", 404, "Partido no encontrado")
       ELSE Await(s, "edit", uid, id, "update",
                  [patch |-> BandPatch(p, matches[id]), body |-> p])

\* PUT /matches/:id: ref.get(), the creator check and the patch; the request
\* body p stays in scope
BandEdit_get(s, uid, id, p) ==
    /\ IsIdle(s)
    /\ UNCHANGED <<matches, nextId, profiles>>
    /\ IF ~Exists(id)
       THEN Respond(s, "edit", 404, "Partido no encontrado")
       ELSE IF matches[id].createdBy # uid
       THEN Respond(s, "edit", 403, "No autorizado")
       ELSE Await(s, "edit", uid, id, "update",
                  [patch |-> BandPatch(p, matches[id]), body |-> p])

\* mutant: the edit writes with set(patch, {merge: true}), which creates a
\* missing document
BandEdit_update_Upsert(s) ==
    /\ At(s, "edit", "update")
    /\ UNCHANGED <<nextId, profiles>>
    /\ LET uid == req[s].uid
           id == req[s].id
       IN  /\ matches' = IF Exists(id)
                         THEN Put(id, Merge(matches[id], req[s].loc.patch))
                         ELSE id :> req[s].loc.patch @@ matches
           /\ Await(s, "edit", uid, id, "reget", NoLoc)

\* PUT /matches/:id: ref.update(patch)
BandEdit_update(s) ==
    /\ At(s, "edit", "update")
    /\ UNCHANGED <<nextId, profiles>>
    /\ LET uid == req[s].uid
           id == req[s].id
       IN  IF ~Exists(id)
           THEN /\ UNCHANGED matches
                /\ Respond(s, "edit", 500, "update failed")
           ELSE /\ matches' = Put(id, Merge(matches[id], req[s].loc.patch))
                /\ Await(s, "edit", uid, id, "reget", NoLoc)

\* PUT /matches/:id: the second ref.get() and the response
BandEdit_reget(s) ==
    /\ At(s, "edit", "reget")
    /\ Respond(s, "edit", 200, "updated")
    /\ UNCHANGED <<matches, nextId, profiles>>

\* DELETE /matches/:id: ref.get() and the creator check
BandDelete_get(s, uid, id) ==
    /\ IsIdle(s)
    /\ UNCHANGED <<matches, nextId, profiles>>
    /\ IF ~Exists(id)
       THEN Respond(s, "delete", 404, "Partido no encontrado")
       ELSE IF matches[id].createdBy # uid
       THEN Respond(s, "delete", 403, "No autorizado")
       ELSE Await(s, "delete", uid, id, "delete", NoLoc)

\* DELETE /matches/:id: ref.delete()
BandDelete_delete(s) ==
    /\ At(s, "delete", "delete")
    /\ matches' = Deleted(req[s].id)
    /\ Respond(s, "delete", 200, "ok")
    /\ UNCHANGED <<nextId, profiles>>

(* request bodies and callers of the band-based specification *)
BandUsers == {"u1", "u2", "u3", "u4"}

NoBody == [title |-> Undef, date |-> Undef, time |-> Undef, location |-> Undef,
           zone |-> Undef, levelMin |-> Undef, levelMax |-> Undef]

BandCreateBodies == { NoBody }

BandEditBodies == { [NoBody EXCEPT !.levelMin = "3ra"], [NoBody EXCEPT !.levelMax = "7ma"] }

BandNextOver(U, CB, EB) ==
    \/ \E s \in Slots, u \in U, p \in CB : BandCreate_add(s, u, p)
    \/ \E s \in Slots : BandCreate_get(s)
    \/ \E s \in Slots, u \in U, id \in MatchIds : BandJoin_get(s, u, id)
    \/ \E s \in Slots : BandJoin_update(s)
    \/ \E s \in Slots, u \in U, id \in MatchIds : BandLeave_get(s, u, id)
    \/ \E s \in Slots : BandLeave_update(s)
    \/ \E s \in Slots, u \in U, id \in MatchIds, p \in EB : BandEdit_get(s, u, id, p)
    \/ \E s \in Slots : BandEdit_update(s)
    \/ \E s \in Slots : BandEdit_reget(s)
    \/ \E s \in Slots, u \in U, id \in MatchIds : BandDelete_get(s, u, id)
    \/ \E s \in Slots : BandDelete_delete(s)

BandNext == BandNextOver(BandUsers, BandCreateBodies, BandEditBodies)

SpecBand == Init /\ [][BandNext]_vars

(* The band-based handlers with the creator and one other caller *)
BandEditUsers == {"u1", "u2"}

BandEditNext == BandNextOver(BandEditUsers, BandCreateBodies, BandEditBodies)

SpecBandEdit == Init /\ [][BandEditNext]_vars

(***************************************************************************)
(* Level-aware revision, src/unnamed/part_000                              *)
(***************************************************************************)
MinLevel == 2       \* level 1 in half-point units
MaxLevel == 14      \* level 7 in half-point units
Half == 1           \* 0.5 in half-point units

Max(a, b) == IF a >= b THEN a ELSE b
Min(a, b) == IF a <= b THEN a ELSE b

HasProfile(uid) == uid \in DOMAIN profiles

\* !myProfile || !myProfile.level
NoLevel(uid) == ~HasProfile(uid) \/ profiles[uid].level \in {NaN, 0}

\* mutant: any number is accepted as a level
ProfileInvalid_AnyNumber(b) ==
    IF Falsy(b.displayName) \/ Trim(b.displayName) = ""
    THEN "displayName es obligatorio"
    ELSE IF b.level = NaN
    THEN "level debe estar entre 1 y 7"
    ELSE "ok"

\* POST /profiles/me: the checks on displayName and level
ProfileInvalid(b) ==
    IF Falsy(b.displayName) \/ Trim(b.displayName) = ""
    THEN "displayName es obligatorio"
    ELSE IF b.level = NaN \/ b.level < MinLevel \/ b.level > MaxLevel
    THEN "level debe estar entre 1 y 7"
    ELSE "ok"

\* doc of POST /profiles/me
ProfileDoc(uid, b) ==
    [uid |-> uid, displayName |-> Trim(b.displayName), level |-> b.level,
     zone |-> OrElse(b.zone, NullStr)]

\* POST /profiles/me: validation, then set(doc, {merge: true})
LvlProfile_set(s, uid, b) ==
    /\ IsIdle(s)
    /\ UNCHANGED <<matches, nextId>>
    /\ IF ProfileInvalid(b) # "ok"
       THEN /\ UNCHANGED profiles
            /\ Respond(s, "profile", 400, ProfileInvalid(b))
       ELSE /\ profiles' = (uid :> ProfileDoc(uid, b)) @@ profiles
            /\ Respond(s, "profile", 200, "ok")

\* mutant: every mode holds four players
ModeMaxPlayers_Always4(mode) == 4

\* maxPlayers of POST /matches
ModeMaxPlayers(mode) == IF mode = "1v1" THEN 2 ELSE 4

\* mutant: the derived lower bound is not clamped at level 1
LvlMin_NoClamp(levelMin, level) == IF levelMin # NaN THEN levelMin ELSE level - Half

\* lvlMin of POST /matches
LvlMin(levelMin, level) == IF levelMin # NaN THEN levelMin ELSE Max(MinLevel, level - Half)

\* lvlMax of POST /matches
LvlMax(levelMax, level) == IF levelMax # NaN THEN levelMax ELSE Min(MaxLevel, level + Half)

\* mutant: the bounds are compared only when the body gives both
LvlCreateInvalid_ExplicitOnly(b, me) ==
    IF Falsy(b.mode) \/ b.mode \notin {"1v1", "2v2"}
    THEN "mode debe ser 1v1 o 2v2"
    ELSE IF b.levelMin # NaN /\ b.levelMax # NaN /\ b.levelMin > b.levelMax
    THEN "levelMin no puede ser > levelMax"
    ELSE "ok"

\* the checks of POST /matches that follow the profile read
LvlCreateInvalid(b, me) ==
    IF Falsy(b.mode) \/ b.mode \notin {"1v1", "2v2"}
    THEN "mode debe ser 1v1 o 2v2"
    ELSE IF LvlMin(b.levelMin, me.level) > LvlMax(b.levelMax, me.level)
    THEN "levelMin no puede ser > levelMax"
    ELSE "ok"

\* payload of POST /matches
LvlPayload(uid, b, me) ==
    [title |-> OrElse(b.title, OrElse(b.location, "Partido")),
     date |-> OrElse(b.date, NullStr),
     time |-> OrElse(b.time, NullStr),
     location |-> OrElse(b.location, NullStr),
     zone |-> OrElse(b.zone, OrElse(me.zone, NullStr)),
     mode |-> b.mode,
     maxPlayers |-> ModeMaxPlayers(b.mode),
     levelMin |-> LvlMin(b.levelMin, me.level),
     levelMax |-> LvlMax(b.levelMax, me.level),
     players |-> <<uid>>,
     createdBy |-> uid,
     status |-> "open"]

\* the model's bound on add(): documents stored or about to be
CanAdd ==
    nextId + Cardinality({s \in Slots : req[s].kind = "create" /\ req[s].pc = "add"})
        < MaxMatches

\* POST /matches: the profile read, the checks and the payload; the locals
\* levelMin, levelMax and myProfile.level stay in scope
LvlCreate_profile(s, uid, b) ==
    /\ IsIdle(s)
    /\ UNCHANGED <<matches, nextId, profiles>>
    /\ IF NoLevel(uid)
       THEN Respond(s, "create", 400, "Completa tu perfil (nivel) antes de crear partidos")
       ELSE IF LvlCreateInvalid(b, profiles[uid]) # "ok"
       THEN Respond(s, "create", 400, LvlCreateInvalid(b, profiles[uid]))
       ELSE /\ CanAdd
            /\ Await(s, "create", uid, 0, "add",
                     [payload |-> LvlPayload(uid, b, profiles[uid]),
                      level |-> profiles[uid].level,
                      levelMin |-> b.levelMin, levelMax |-> b.levelMax])

\* POST /matches: db.collection('matches').add(payload)
LvlCreate_add(s) ==
    /\ At(s, "create", "add")
    /\ matches' = Added(req[s].loc.payload)
    /\ nextId' = nextId + 1
    /\ Await(s, "create", req[s].uid, nextId + 1, "get", NoLoc)
    /\ UNCHANGED profiles

\* POST /matches: ref.get() and the 201 response
LvlCreate_get(s) ==
    /\ At(s, "create", "get")
    /\ Respond(s, "create", 201, "created")
    /\ UNCHANGED <<matches, nextId, profiles>>

\* typeof match.maxPlayers === 'number' ? match.maxPlayers : 4
LvlMaxPlayers(m) == IF IsNumber(m.maxPlayers) THEN m.maxPlayers ELSE 4

\* mutant: the bounds are exclusive
LvlOk_Strict(m, level) ==
    /\ (~IsNumber(m.levelMin) \/ level > m.levelMin)
    /\ (~IsNumber(m.levelMax) \/ level < m.levelMax)

\* lvlOk of POST /matches/:id/join
LvlOk(m, level) ==
    /\ (~IsNumber(m.levelMin) \/ level >= m.levelMin)
    /\ (~IsNumber(m.levelMax) \/ level <= m.levelMax)

\* mutant: the capacity check comes before the status check
LvlJoinCheck_CapacityFirst(m, uid, level) ==
    IF Len(m.players) >= (IF IsNumber(m.maxPlayers) THEN m.maxPlayers ELSE 4)
    THEN "Partido lleno"
    ELSE IF m.status # "open" THEN "Partido cerrado"
    ELSE IF Includes(m.players, uid) THEN "Ya estas en el partido"
    ELSE IF ~(/\ (~IsNumber(m.levelMin) \/ level >= m.levelMin)
              /\ (~IsNumber(m.levelMax) \/ level <= m.levelMax))
    THEN "Tu nivel no coincide con el requerido"
    ELSE "ok"

\* the checks of POST /matches/:id/join on the match snapshot, in order
LvlJoinCheck(m, uid, level) ==
    IF m.status # "open" THEN "Partido cerrado"
    ELSE IF Includes(m.players, uid) THEN "Ya estas en el partido"
    ELSE IF Len(m.players) >= LvlMaxPlayers(m) THEN "Partido lleno"
    ELSE IF ~LvlOk(m, level) THEN "Tu nivel no coincide con el requerido"
    ELSE "ok"

\* POST /matches/:id/join: the profile read
LvlJoin_profile(s, uid, id) ==
    /\ IsIdle(s)
    /\ UNCHANGED <<matches, nextId, profiles>>
    /\ IF NoLevel(uid)
       THEN Respond(s, "join", 400, "Completa tu perfil (nivel) antes de unirte")
       ELSE Await(s, "join", uid, id, "get", [level |-> profiles[uid].level])

\* POST /matches/:id/join: matchRef.get() and the checks on the snapshot
LvlJoin_get(s) ==
    /\ At(s, "join", "get")
    /\ UNCHANGED <<matches, nextId, profiles>>
    /\ LET uid == req[s].uid
           id == req[s].id
       IN  IF ~Exists(id)
           THEN Respond(s, "join", 404, "Partido no encontrado")
           ELSE IF LvlJoinCheck(matches[id], uid, req[s].loc.level) # "ok"
           THEN Respond(s, "join", 400, LvlJoinCheck(matches[id], uid, req[s].loc.level))
           ELSE Await(s, "join", uid, id, "update", req[s].loc)

\* POST /matches/:id/join: matchRef.update({players: arrayUnion(uid)})
LvlJoin_update(s) ==
    /\ At(s, "join", "update")
    /\ UNCHANGED <<nextId, profiles>>
    /\ LET uid == req[s].uid
           id == req[s].id
       IN  IF ~Exists(id)
           THEN /\ UNCHANGED matches
                /\ Respond(s, "join", 500, "update failed")
           ELSE /\ matches' = Put(id, [matches[id] EXCEPT !.players = arrayUnion(@, uid)])
                /\ Await(s, "join", uid, id, "reget", NoLoc)

\* mutant: the match is closed one player too late
LvlFilled_OffByOne(after) ==
    IsNumber(after.maxPlayers) /\ Len(after.players) > after.maxPlayers

\* (after.players?.length || 0) >= after.maxPlayers
LvlFilled(after) == IsNumber(after.maxPlayers) /\ Len(after.players) >= after.maxPlayers

\* POST /matches/:id/join: the second matchRef.get()
LvlJoin_reget(s) ==
    /\ At(s, "join", "reget")
    /\ UNCHANGED <<matches, nextId, profiles>>
    /\ LET uid == req[s].uid
           id == req[s].id
       IN  IF ~Exists(id)
           THEN Respond(s, "join", 500, "no data")
           ELSE IF LvlFilled(matches[id])
           THEN Await(s, "join", uid, id, "full", NoLoc)
           ELSE Respond(s, "join", 200, "Te uniste al partido")

\* POST /matches/:id/join: matchRef.update({status: 'full'})
LvlJoin_full(s) ==
    /\ At(s, "join", "full")
    /\ UNCHANGED <<nextId, profiles>>
    /\ LET id == req[s].id
       IN  IF ~Exists(id)
           THEN /\ UNCHANGED matches
                /\ Respond(s, "join", 500, "update failed")
           ELSE /\ matches' = Put(id, [matches[id] EXCEPT !.status = "full"])
                /\ Respond(s, "join", 200, "Te uniste al partido")

(* request bodies and callers of the level-aware specifications *)
NoProfileBody == [displayName |-> Undef, level |-> NaN, zone |-> Undef]
NoLvlBody == [title |-> Undef, date |-> Undef, time |-> Undef, location |-> Undef,
              zone |-> Undef, mode |-> Undef, levelMin |-> NaN, levelMax |-> NaN]

\* PR: the profile requests sent, <<caller, body>>; CB: the create bodies sent;
\* IDS: the match ids join requests name
LvlNextOver(U, PR, CB, IDS) ==
    \/ \E s \in Slots, r \in PR : LvlProfile_set(s, r[1], r[2])
    \/ \E s \in Slots, u \in U, b \in CB : LvlCreate_profile(s, u, b)
    \/ \E s \in Slots : LvlCreate_add(s)
    \/ \E s \in Slots : LvlCreate_get(s)
    \/ \E s \in Slots, u \in U, id \in IDS : LvlJoin_profile(s, u, id)
    \/ \E s \in Slots : LvlJoin_get(s)
    \/ \E s \in Slots : LvlJoin_update(s)
    \/ \E s \in Slots : LvlJoin_reget(s)
    \/ \E s \in Slots : LvlJoin_full(s)

ProfileBody(level) == [NoProfileBody EXCEPT !.displayName = "A", !.level = level]

(* Three callers; u1 declares level 4, u2 level 4.5 and u3 level 6 or 4 *)
LvlUsers == {"u1", "u2", "u3"}

LvlProfileReqs ==
    { <<"u1", ProfileBody(8)>>, <<"u2", ProfileBody(9)>>,
      <<"u3", ProfileBody(12)>>, <<"u3", ProfileBody(8)>> }

LvlCreateBodies == { [NoLvlBody EXCEPT !.mode = "1v1"] }

LvlNext == LvlNextOver(LvlUsers, LvlProfileReqs, LvlCreateBodies, MatchIds)

SpecLevel == Init /\ [][LvlNext]_vars

(* A store that already holds one match written by an earlier revision:   *)
(* the collection is shared, and such a document carries a bound that is   *)
(* not a number (a band name, or no field at all).                         *)
LegacyId == 0

\* as the earlier minimal revision stores it, from a body without maxPlayers
LegacyDoc(levelMin, levelMax) ==
    [createdBy |-> "u0", players |-> <<"u0">>, status |-> "open", maxPlayers |-> NaN,
     levelMin |-> levelMin, levelMax |-> levelMax, date |-> Undef]

InitLegacy ==
    /\ \E b \in {<<NaN, NaN>>, <<9, NaN>>, <<NaN, 9>>} :
            matches = (LegacyId :> LegacyDoc(b[1], b[2]))
    /\ nextId = 0
    /\ profiles = <<>>
    /\ req = [s \in Slots |-> Idle]
    /\ resp = NoResp

LegacyProfileReqs ==
    { <<"u1", ProfileBody(8)>>, <<"u2", ProfileBody(9)>>, <<"u3", ProfileBody(12)>> }

LegacyNext ==
    LvlNextOver(LvlUsers, LegacyProfileReqs, LvlCreateBodies, {LegacyId} \cup MatchIds)

SpecLevelLegacy == InitLegacy /\ [][LegacyNext]_vars

(* One caller, every level a profile can hold, and explicit bounds *)
MaxCreateReq == 1       \* create handlers in flight at once

CreateUsers == {"u1"}

CreateLevels == (MinLevel - 1)..(MaxLevel + 1) \cup {NaN}

CreateProfileReqs == { <<"u1", ProfileBody(l)>> : l \in CreateLevels }

CreateBounds == {NaN, 1, 8, 15}

CreateBodies ==
    { [NoLvlBody EXCEPT !.mode = m, !.levelMin = lo, !.levelMax = hi] :
        m \in {"1v1", "2v2", "3v3", Undef}, lo \in CreateBounds, hi \in CreateBounds }

CreateNext ==
    \/ \E s \in 1..MaxCreateReq, r \in CreateProfileReqs : LvlProfile_set(s, r[1], r[2])
    \/ \E s \in 1..MaxCreateReq, u \in CreateUsers, b \in CreateBodies :
            LvlCreate_profile(s, u, b)
    \/ \E s \in 1..MaxCreateReq : LvlCreate_add(s)
    \/ \E s \in 1..MaxCreateReq : LvlCreate_get(s)

SpecLevelCreate == Init /\ [][CreateNext]_vars

(***************************************************************************)
(* Earlier minimal revision, src/functions/index.js lines 329-470          *)
(***************************************************************************)
\* payload of POST /matches: the request body with createdBy, players and
\* status set (body.players is <<>> when missing, empty or not an array)
MinPayload(uid, b) ==
    [createdBy |-> uid,
     players |-> IF Len(b.players) > 0 THEN b.players ELSE <<uid>>,
     status |-> OrElse(b.status, "open"),
     maxPlayers |-> b.maxPlayers,
     levelMin |-> b.levelMin,
     levelMax |-> b.levelMax,
     date |-> b.date]

\* POST /matches: db.collection('matches').add(payload)
MinCreate_add(s, uid, b) ==
    /\ IsIdle(s)
    /\ nextId < MaxMatches
    /\ matches' = Added(MinPayload(uid, b))
    /\ nextId' = nextId + 1
    /\ Await(s, "create", uid, nextId + 1, "get", NoLoc)
    /\ UNCHANGED profiles

\* POST /matches: ref.get() and the 201 response
MinCreate_get(s) ==
    /\ At(s, "create", "get")
    /\ Respond(s, "create", 201, "created")
    /\ UNCHANGED <<matches, nextId, profiles>>

\* POST /matches/:id/join: matchRef.get() and the checks on the snapshot
MinJoin_get(s, uid, id) ==
    /\ IsIdle(s)
    /\ UNCHANGED <<matches, nextId, profiles>>
    /\ IF ~Exists(id)
       THEN Respond(s, "join", 404, "Partido no encontrado")
       ELSE LET players == matches[id].players
                maxPlayers == LvlMaxPlayers(matches[id])
            IN  IF Includes(players, uid)
                THEN Respond(s, "join", 400, "Ya estas en el partido")
                ELSE IF Len(players) >= maxPlayers
                THEN Respond(s, "join", 400, "Partido lleno")
                ELSE Await(s, "join", uid, id, "update", NoLoc)

\* POST /matches/:id/join: matchRef.update({players: arrayUnion(uid)})
MinJoin_update(s) ==
    /\ At(s, "join", "update")
    /\ UNCHANGED <<nextId, profiles>>
    /\ LET uid == req[s].uid
           id == req[s].id
       IN  IF ~Exists(id)
           THEN /\ UNCHANGED matches
                /\ Respond(s, "join", 500, "update failed")
           ELSE /\ matches' = Put(id, [matches[id] EXCEPT !.players = arrayUnion(@, uid)])
                /\ Respond(s, "join", 200, "Te uniste al partido")

NoMinBody == [players |-> <<>>, status |-> Undef, maxPlayers |-> NaN,
              levelMin |-> NaN, levelMax |-> NaN, date |-> Undef]

MinUsers == {"u1", "u2", "u3"}

MinBodies ==
    { NoMinBody,
      [NoMinBody EXCEPT !.maxPlayers = 2],
      [NoMinBody EXCEPT !.players = <<"u2">>, !.maxPlayers = 2],
      [NoMinBody EXCEPT !.status = "closed"] }

MinNext ==
    \/ \E s \in Slots, u \in MinUsers, b \in MinBodies : MinCreate_add(s, u, b)
    \/ \E s \in Slots : MinCreate_get(s)
    \/ \E s \in Slots, u \in MinUsers, id \in MatchIds : MinJoin_get(s, u, id)
    \/ \E s \in Slots : MinJoin_update(s)

SpecMin == Init /\ [][MinNext]_vars

(* The band-based join, leave and create handlers alone, with five callers *)
BandJoinUsers == {"u1", "u2", "u3", "u4", "u5"}

BandJoinNext ==
    \/ \E s \in Slots, u \in BandJoinUsers : BandCreate_add(s, u, NoBody)
    \/ \E s \in Slots : BandCreate_get(s)
    \/ \E s \in Slots, u \in BandJoinUsers, id \in MatchIds : BandJoin_get(s, u, id)
    \/ \E s \in Slots : BandJoin_update(s)
    \/ \E s \in Slots, u \in BandJoinUsers, id \in MatchIds : BandLeave_get(s, u, id)
    \/ \E s \in Slots : BandLeave_update(s)

SpecBandJoin == Init /\ [][BandJoinNext]_vars

(***************************************************************************)
(* Properties                                                              *)
(***************************************************************************)
\* the handler of slot s sends its response in this step
Ended(s) == req'[s] = Idle

\* the handler of slot s moves on to its next store operation in this step
Proceeds(s, pc) == req'[s].pc = pc /\ resp' = resp

Answered(kind, code, msg) == resp' = [kind |-> kind, code |-> code, msg |-> msg]

(* C1: in every reachable state, under any interleaving of create, join and
   leave requests, every stored match has players.length <= maxPlayers.
   Stated for the band-based revision; C1_Capacity_AsRead states it for the
   level-aware and the earlier minimal revision, whose documents may lack
   the maxPlayers field (a join then reads 4). *)
C1_Capacity ==
    \A id \in DOMAIN matches : Len(matches[id].players) <= matches[id].maxPlayers

C1_Capacity_AsRead ==
    \A id \in DOMAIN matches : Len(matches[id].players) <= LvlMaxPlayers(matches[id])

(* C2: when a successful join has finished its writes, the stored match has
   status 'full' if and only if players.length = maxPlayers, and 'open'
   otherwise, for every interleaving with other joins and leaves. *)
StatusMatchesMembership(m) ==
    /\ m.status \in {"open", "full"}
    /\ m.status = "full" <=> Len(m.players) = m.maxPlayers

C2_StatusAfterJoin ==
    [][\A s \in Slots :
        (BandJoin_update(s) /\ resp'.code = 200)
            => StatusMatchesMembership(matches'[req[s].id])]_vars

(* C3: in every reachable state createdBy is an element of players, for every
   stored match.  Stated for the earlier minimal revision; C3_CreatorMember_Band
   and C3_CreatorMember_Level state it for the other two. *)
C3_CreatorMember ==
    \A id \in DOMAIN matches : Includes(matches[id].players, matches[id].createdBy)

C3_CreatorMember_Band ==
    \A id \in DOMAIN matches : matches[id].createdBy \in Range(matches[id].players)

C3_CreatorMember_Level ==
    \A id \in DOMAIN matches : \E i \in 1..Len(matches[id].players) :
        matches[id].players[i] = matches[id].createdBy

(* C4: a join of the level-aware revision is answered with the error of the
   first failing condition of an ordered list. *)
NotFoundMsg == "Partido no encontrado"
NoLevelMsg == "Completa tu perfil (nivel) antes de unirte"
ClosedMsg == "Partido cerrado"
AlreadyMsg == "Ya estas en el partido"
FullMsg == "Partido lleno"
MismatchMsg == "Tu nivel no coincide con el requerido"

\* level L is inside the bounds of m, a bound that is not a number being no bound
InBounds(m, L) ==
    /\ (m.levelMin # NaN => m.levelMin <= L)
    /\ (m.levelMax # NaN => L <= m.levelMax)

\* the response of the first condition of cs that fails, cs a sequence of
\* <<fails, code, message>>; <<200, "ok">> when none fails
FirstFailing(cs) ==
    IF \E i \in 1..Len(cs) : cs[i][1]
    THEN LET k == CHOOSE i \in 1..Len(cs) : cs[i][1] /\ \A j \in 1..(i - 1) : ~cs[j][1]
         IN  <<cs[k][2], cs[k][3]>>
    ELSE <<200, "ok">>

CondNoLevel(u) == << <<NoLevel(u), 400, NoLevelMsg>> >>
CondNotFound(id) == << <<~Exists(id), 404, NotFoundMsg>> >>

\* conditions (3) to (6), on the stored match
CondsOnMatch(u, id, L) ==
    IF ~Exists(id) THEN <<>>
    ELSE LET m == matches[id]
         IN  << <<m.status # "open", 400, ClosedMsg>>,
                <<u \in Range(m.players), 400, AlreadyMsg>>,
                <<Len(m.players) >= (IF m.maxPlayers = NaN THEN 4 ELSE m.maxPlayers),
                  400, FullMsg>>,
                <<~InBounds(m, L), 400, MismatchMsg>> >>

LevelOf(u) == IF HasProfile(u) THEN profiles[u].level ELSE NaN

\* the order the claim gives: not found, no level, closed, joined, full, mismatch
ClaimedOrder(u, id, L) == CondNotFound(id) \o CondNoLevel(u) \o CondsOnMatch(u, id, L)

\* the order of the code: no level, not found, closed, joined, full, mismatch
CodeOrder(u, id, L) == CondNoLevel(u) \o CondNotFound(id) \o CondsOnMatch(u, id, L)

\* C4 as claimed: every response of a join handler is the one of the first
\* failing condition in the order (1) not found, (2) no level, (3) closed,
\* (4) already joined, (5) full, (6) level mismatch.
C4_ClaimedOrder ==
    [][/\ \A s \in Slots, u \in LvlUsers, id \in MatchIds :
            (LvlJoin_profile(s, u, id) /\ Ended(s))
                => <<resp'.code, resp'.msg>> = FirstFailing(ClaimedOrder(u, id, LevelOf(u)))
       /\ \A s \in Slots :
            (LvlJoin_get(s) /\ Ended(s))
                => <<resp'.code, resp'.msg>> =
                      FirstFailing(CondNotFound(req[s].id)
                                   \o CondsOnMatch(req[s].uid, req[s].id, req[s].loc.level))
      ]_vars

\* C4 amended: a join is answered with the error of the first failing
\* condition in the order (1) no level (on the profile read), then, on the
\* match read, (2) not found, (3) closed, (4) already joined, (5) full,
\* (6) level mismatch; it goes on to its write exactly when none fails.
C4_CodeOrder ==
    [][/\ \A s \in Slots, u \in LvlUsers, id \in MatchIds :
            LvlJoin_profile(s, u, id)
                => IF NoLevel(u)
                   THEN /\ Ended(s)
                        /\ <<resp'.code, resp'.msg>> = FirstFailing(CodeOrder(u, id, NaN))
                   ELSE Proceeds(s, "get")
       /\ \A s \in Slots :
            LvlJoin_get(s)
                => LET r == FirstFailing(CondNotFound(req[s].id)
                              \o CondsOnMatch(req[s].uid, req[s].id, req[s].loc.level))
                   IN  IF r = <<200, "ok">>
                       THEN Proceeds(s, "update")
                       ELSE Ended(s) /\ resp'.kind = "join" /\ <<resp'.code, resp'.msg>> = r
      ]_vars

\* a caller without a profile level joined a match that does not exist and
\* was answered with the validation error
C4_Witness ==
    /\ resp = [kind |-> "join", code |-> 400, msg |-> NoLevelMsg]
    /\ DOMAIN matches = {}
    /\ DOMAIN profiles # LvlUsers

(* C5: band-based leave.  A successful leave removes exactly the caller from
   players, keeping every other member and their order, and leaves status
   'open'; a leave by a non-member or by the creator is rejected and the
   stored match is unchanged. *)
IndexIn(seq, x) == CHOOSE i \in 1..Len(seq) : seq[i] = x

RemovedExactly(before, after, uid) ==
    /\ Range(after) = Range(before) \ {uid}
    /\ Len(after) = Cardinality(Range(after))
    /\ \A i, j \in 1..Len(after) :
            i < j => IndexIn(before, after[i]) < IndexIn(before, after[j])

C5_Leave ==
    [][/\ \A s \in Slots :
            (BandLeave_update(s) /\ Exists(req[s].id))
                => /\ Answered("leave", 200, "Saliste del partido")
                   /\ RemovedExactly(matches[req[s].id].players,
                                     matches'[req[s].id].players, req[s].uid)
                   /\ matches'[req[s].id].status = "open"
       /\ \A s \in Slots, u \in BandUsers, id \in MatchIds :
            (BandLeave_get(s, u, id) /\ Exists(id)
                /\ (u \notin Range(matches[id].players) \/ u = matches[id].createdBy))
                => /\ Ended(s)
                   /\ resp'.kind = "leave" /\ resp'.code = 400
                   /\ matches' = matches
      ]_vars

\* a member that is not the creator has left a match that keeps other members
C5_Witness ==
    /\ resp = [kind |-> "leave", code |-> 200, msg |-> "Saliste del partido"]
    /\ \E id \in DOMAIN matches :
        /\ Len(matches[id].players) >= 2
        /\ matches[id].status = "open"

(* C6: the filled-match scenario of the level-aware revision: a 1v1 match
   of a level 4 creator with bounds [3.5, 4.5]. *)
Scenario(m) ==
    /\ m.mode = "1v1" /\ m.maxPlayers = 2
    /\ m.createdBy = "u1"
    /\ m.levelMin = 7 /\ m.levelMax = 9

\* C6 as claimed: once the scenario's match is full, a join by another user
\* is rejected by the capacity check ('Partido lleno') and changes nothing.
C6_LaterJoinFull ==
    [][\A s \in Slots :
        (/\ LvlJoin_get(s)
         /\ Exists(req[s].id)
         /\ Scenario(matches[req[s].id])
         /\ matches[req[s].id].status = "full"
         /\ req[s].uid \notin Range(matches[req[s].id].players))
            => /\ Answered("join", 400, FullMsg)
               /\ matches' = matches]_vars

\* C6 amended: in the scenario a join by a user of level 4.5 is admitted and
\* every join that ends successfully leaves status 'full'; once the status is
\* 'full', a join by another user with a declared level, whatever that level,
\* is rejected by the status check ('Partido cerrado') and changes nothing.
C6_LaterJoinClosed ==
    [][\A s \in Slots :
        LET id == req[s].id
            uid == req[s].uid
        IN  /\ (/\ LvlJoin_get(s) /\ Exists(id) /\ Scenario(matches[id])
                /\ matches[id].players = <<"u1">> /\ matches[id].status = "open"
                /\ req[s].loc.level = 9)
                    => Proceeds(s, "update")
            /\ (/\ LvlJoin_reget(s) \/ LvlJoin_full(s)
                /\ Exists(id) /\ Scenario(matches[id])
                /\ Ended(s) /\ resp'.code = 200)
                    => /\ matches'[id].status = "full"
                       /\ uid \in Range(matches'[id].players)
            /\ (/\ LvlJoin_get(s) /\ Exists(id) /\ Scenario(matches[id])
                /\ matches[id].status = "full"
                /\ uid \notin Range(matches[id].players))
                    => /\ Ended(s)
                       /\ Answered("join", 400, ClosedMsg)
                       /\ matches' = matches
      ]_vars

\* the scenario's match was filled by the level 4.5 user and a later join of
\* the third user, who declares a level, was answered 'Partido cerrado'
C6_Witness ==
    /\ resp = [kind |-> "join", code |-> 400, msg |-> ClosedMsg]
    /\ "u3" \in DOMAIN profiles
    /\ \E id \in DOMAIN matches :
        /\ Scenario(matches[id])
        /\ matches[id].players = <<"u1", "u2">>
        /\ matches[id].status = "full"
    /\ \A s \in Slots : IsIdle(s)

(* C7: level eligibility on join (level-aware revision).  A join by a
   non-member of an open match with a free place goes on to its write exactly
   when the joiner's level is inside the bounds (a bound that is not a number
   counts as no bound); otherwise it is answered 'level mismatch' and
   nothing is written.  So every handler about to add its caller read a level
   inside the bounds. *)
C7_LevelEligibility ==
    [][\A s \in Slots :
        LET id == req[s].id
            uid == req[s].uid
        IN  /\ (/\ LvlJoin_get(s) /\ Exists(id)
                /\ matches[id].status = "open"
                /\ uid \notin Range(matches[id].players)
                /\ Len(matches[id].players) < LvlMaxPlayers(matches[id]))
                    => IF InBounds(matches[id], req[s].loc.level)
                       THEN Proceeds(s, "update")
                       ELSE /\ Ended(s)
                            /\ Answered("join", 400, MismatchMsg)
                            /\ matches' = matches
            /\ (LvlJoin_update(s) /\ Exists(id))
                    => /\ InBounds(matches[id], req[s].loc.level)
                       /\ uid \in Range(matches'[id].players)
      ]_vars

\* a match without a numeric upper bound has admitted a member, and a join
\* was answered 'level mismatch'
C7_Witness ==
    /\ resp = [kind |-> "join", code |-> 400, msg |-> MismatchMsg]
    /\ \E id \in DOMAIN matches :
        /\ matches[id].levelMax = NaN
        /\ matches[id].levelMin # NaN
        /\ Len(matches[id].players) >= 2

(* C8: in every reachable state every stored match has levelMin <= levelMax
   (band ranks levelMinRank <= levelMaxRank in the band-based revision).
   Stated for the band-based revision; C8_BoundsOrdered_Level states it for
   the level-aware one. *)
C8_BoundsOrdered ==
    \A id \in DOMAIN matches : matches[id].levelMinRank <= matches[id].levelMaxRank

C8_BoundsOrdered_Level ==
    \A id \in DOMAIN matches : matches[id].levelMin <= matches[id].levelMax

(* C9: a create that omits levelMin and levelMax, by a creator whose level
   read from the profile is L in [1,7], persists levelMin = max(1, L - 0.5)
   and levelMax = min(7, L + 0.5), so 1 <= levelMin <= L <= levelMax <= 7. *)
C9_DefaultBounds ==
    [][\A s \in Slots :
        (/\ LvlCreate_add(s)
         /\ req[s].loc.levelMin = NaN /\ req[s].loc.levelMax = NaN)
            => LET L == req[s].loc.level
                   m == matches'[nextId']
               IN  /\ L \in 2..14
                   /\ m.levelMin = (IF L - 1 < 2 THEN 2 ELSE L - 1)
                   /\ m.levelMax = (IF L + 1 > 14 THEN 14 ELSE L + 1)
                   /\ 2 <= m.levelMin /\ m.levelMin <= L
                   /\ L <= m.levelMax /\ m.levelMax <= 14
                   /\ InBounds(m, L)]_vars

\* matches with derived bounds clamped at 1 and at 7 are stored
C9_Witness ==
    /\ \E id \in DOMAIN matches :
        matches[id].levelMin = 2 /\ matches[id].levelMax = 3
    /\ resp = [kind |-> "create", code |-> 201, msg |-> "created"]

(* C10: a create of the level-aware revision is rejected with 400 and
   stores nothing when (a) the caller has no profile or no level, (b) mode is
   neither '1v1' nor '2v2', or (c) the resulting levelMin > levelMax, one
   explicit bound crossing the derived other included. *)
EffectiveMin(b, L) == IF b.levelMin = NaN THEN (IF L - 1 < 2 THEN 2 ELSE L - 1) ELSE b.levelMin
EffectiveMax(b, L) == IF b.levelMax = NaN THEN (IF L + 1 > 14 THEN 14 ELSE L + 1) ELSE b.levelMax

MustReject(u, b) ==
    \/ u \notin DOMAIN profiles
    \/ profiles[u].level = NaN
    \/ b.mode \notin {"1v1", "2v2"}
    \/ EffectiveMin(b, profiles[u].level) > EffectiveMax(b, profiles[u].level)

C10_RejectedCreate ==
    [][\A s \in 1..MaxCreateReq, u \in CreateUsers, b \in CreateBodies :
        (IsIdle(s) /\ MustReject(u, b) /\ LvlCreate_profile(s, u, b))
            => /\ Ended(s)
               /\ resp'.kind = "create" /\ resp'.code = 400
               /\ matches' = matches /\ nextId' = nextId]_vars

\* with a match stored, a create whose bounds cross was answered 400
C10_Witness ==
    /\ resp = [kind |-> "create", code |-> 400, msg |-> "levelMin no puede ser > levelMax"]
    /\ DOMAIN matches # {}

(***************************************************************************)
(* The create handlers of the band-based and the level-aware revision on   *)
(* the shared collection, which already holds a match                      *)
(***************************************************************************)
BothUsers == {"u1", "u2"}

BothProfileReqs == { <<"u1", ProfileBody(8)>>, <<"u2", ProfileBody(9)>> }

BothCreateBodies == { [NoLvlBody EXCEPT !.mode = m] : m \in {"1v1", "2v2", "3v3"} }

BothCreateNext ==
    \/ \E s \in Slots, u \in BothUsers : BandCreate_add(s, u, NoBody)
    \/ \E s \in Slots : BandCreate_get(s)
    \/ \E s \in Slots, r \in BothProfileReqs : LvlProfile_set(s, r[1], r[2])
    \/ \E s \in Slots, u \in BothUsers, b \in BothCreateBodies : LvlCreate_profile(s, u, b)
    \/ \E s \in Slots : LvlCreate_add(s)
    \/ \E s \in Slots : LvlCreate_get(s)

SpecCreate == InitLegacy /\ [][BothCreateNext]_vars

\* this step stores exactly one new match, of caller uid, and changes no other
CreatedOne(uid, maxPlayers) ==
    \E id \in DOMAIN matches' \ DOMAIN matches :
        /\ DOMAIN matches' = DOMAIN matches \cup {id}
        /\ \A old \in DOMAIN matches : matches'[old] = matches[old]
        /\ matches'[id].players = <<uid>>
        /\ matches'[id].createdBy = uid
        /\ matches'[id].status = "open"
        /\ matches'[id].maxPlayers = maxPlayers

ClaimedMaxPlayers(mode) == CASE mode = "1v1" -> 2 [] mode = "2v2" -> 4 [] OTHER -> NaN

(* C11: every create that gets as far as its add() stores exactly one new
   match with players = [creator], createdBy = caller, status 'open' and
   maxPlayers 2 for mode '1v1' and 4 for '2v2' in the level-aware revision,
   always 4 in the band-based revision; every match stored before is
   unchanged, and the steps of a create other than add() write nothing. *)
C11_CreateEffect ==
    [][\A s \in Slots :
        /\ \A u \in BothUsers : BandCreate_add(s, u, NoBody) => CreatedOne(u, 4)
        /\ \A u \in BothUsers, b \in BothCreateBodies :
                (LvlCreate_profile(s, u, b) /\ Proceeds(s, "add"))
                    => /\ req'[s].loc.payload.mode = b.mode
                       /\ req'[s].uid = u
        /\ (At(s, "create", "add") /\ LvlCreate_add(s))
                => CreatedOne(req[s].uid, ClaimedMaxPlayers(req[s].loc.payload.mode))
        /\ (At(s, "create", "get") /\ Ended(s))
                => (matches' = matches /\ Answered("create", 201, "created"))]_vars

\* next to the match stored before, a '1v1' match of two players was created
C11_Witness ==
    /\ LegacyId \in DOMAIN matches
    /\ \E id \in DOMAIN matches \ {LegacyId} :
            matches[id].mode = "1v1" /\ matches[id].maxPlayers = 2
    /\ \E id \in DOMAIN matches \ {LegacyId} :
            matches[id].mode = "2v2" /\ matches[id].createdBy = "u2"
    /\ resp = [kind |-> "create", code |-> 201, msg |-> "created"]

(***************************************************************************)
(* GET /matches, src/functions/index.js lines 135-167 (band-based) and     *)
(* src/unnamed/part_000 lines 218-240 (level-aware).  createdAt is the     *)
(* server time of add(): documents are ordered by the ids add() hands out. *)
(***************************************************************************)
ListLimit == 50

RECURSIVE SortDesc(_)
\* orderBy('createdAt', 'desc') / items.sort by createdAt, newest first
SortDesc(S) ==
    IF S = {} THEN <<>>
    ELSE LET m == CHOOSE x \in S : \A y \in S : y <= x
         IN  <<m>> \o SortDesc(S \ {m})

\* limit(n)
Take(seq, n) == SubSeq(seq, 1, Min(n, Len(seq)))

\* m.f of a document that may lack the field
Field(m, f) == IF f \in DOMAIN m THEN m[f] ELSE Undef

NoQuery == [levelBand |-> Undef, level |-> Undef, date |-> Undef, zone |-> Undef]

\* items of the band-based GET /matches, for a rank Firestore can encode
BandListItems(q) ==
    LET levelBand == OrElse(q.levelBand, NullStr)
        levelRank == IF Falsy(levelBand) THEN Null ELSE rankOf(levelBand)
        date == OrElse(q.date, NullStr)
        hit == {id \in DOMAIN matches :
                    /\ ~Falsy(date) => matches[id].date = date
                    /\ levelRank # Null =>
                            /\ matches[id].levelMinRank # Null
                            /\ matches[id].levelMinRank <= levelRank}
        items == Take(SortDesc(hit), ListLimit)
    IN  SelectSeq(items, LAMBDA id :
            levelRank # Null =>
                (matches[id].levelMaxRank # Null => matches[id].levelMaxRank >= levelRank))

\* the response of the band-based GET /matches: a where() on a function
\* cannot be encoded, get() rejects and the catch answers 500
BandListResp(q) ==
    IF ~Falsy(q.levelBand) /\ rankOf(q.levelBand) = Fn
    THEN [kind |-> "list", code |-> 500, msg |-> "Cannot encode value"]
    ELSE [kind |-> "list", code |-> 200, msg |-> "items", items |-> BandListItems(q)]

\* GET /matches (band-based): one query, one response
BandList_get(s, q) ==
    /\ IsIdle(s)
    /\ resp' = BandListResp(q)
    /\ UNCHANGED <<matches, nextId, profiles, req>>

\* Number(req.query.level)
ToNumber(x) ==
    CASE x = "4" -> 8
      [] x = "4.5" -> 9
      [] x = "7" -> 14
      [] x = "0" -> 0
      [] x = " " -> 0
      [] OTHER -> NaN

NoParam == 0 - 98           \* level = null: no level parameter

\* items of the level-aware GET /matches
LvlListItems(q) ==
    LET level == IF Falsy(q.level) THEN NoParam ELSE ToNumber(q.level)
        date == OrElse(q.date, NullStr)
        zone == OrElse(q.zone, NullStr)
        byLevel == level # NoParam /\ level # NaN
        hit == {id \in DOMAIN matches :
                    /\ matches[id].status = "open"
                    /\ ~Falsy(date) => Field(matches[id], "date") = date
                    /\ ~Falsy(zone) => Field(matches[id], "zone") = zone
                    /\ byLevel =>
                            /\ IsNumber(matches[id].levelMin)
                            /\ matches[id].levelMin <= level}
        items == Take(SortDesc(hit), ListLimit)
    IN  SelectSeq(items, LAMBDA id :
            byLevel =>
                (IsNumber(matches[id].levelMax) => matches[id].levelMax >= level))

LvlListResp(q) == [kind |-> "list", code |-> 200, msg |-> "items", items |-> LvlListItems(q)]

\* GET /matches (level-aware): one query, one response
LvlList_get(s, q) ==
    /\ IsIdle(s)
    /\ resp' = LvlListResp(q)
    /\ UNCHANGED <<matches, nextId, profiles, req>>

(* The band-based listing over a store that holds a match and gets another *)
InitBandStored ==
    /\ matches = (LegacyId :> BandDocData("u0", [NoBody EXCEPT !.zone = "Belgrano"]))
    /\ nextId = 0
    /\ profiles = <<>>
    /\ req = [s \in Slots |-> Idle]
    /\ resp = NoResp

BandListBodies ==
    { NoBody,
      [NoBody EXCEPT !.levelMin = "6ta", !.levelMax = "4ta", !.date = "d1", !.zone = "Palermo"],
      [NoBody EXCEPT !.levelMin = "1ra", !.levelMax = "1ra", !.date = "d1"] }

BandQueries ==
    { [NoQuery EXCEPT !.levelBand = l, !.date = d, !.zone = z] :
        l \in {Undef, "", "5ta", "8va", "1ra", "constructor"},
        d \in {Undef, "d1"}, z \in {Undef, "Palermo"} }

BandListNext ==
    \/ \E s \in Slots, p \in BandListBodies : BandCreate_add(s, "u1", p)
    \/ \E s \in Slots : BandCreate_get(s)
    \/ \E s \in Slots, id \in {LegacyId} \cup MatchIds : BandJoin_get(s, "u2", id)
    \/ \E s \in Slots : BandJoin_update(s)
    \/ \E s \in Slots, q \in BandQueries : BandList_get(s, q)

SpecBandList == InitBandStored /\ [][BandListNext]_vars

(* The level-aware listing over a store that holds a match of the earlier
   revision and gets another that may fill up *)
LvlListBodies ==
    { [NoLvlBody EXCEPT !.mode = "1v1", !.date = "d1", !.zone = "Palermo"],
      [NoLvlBody EXCEPT !.mode = "1v1", !.levelMin = 2, !.levelMax = 14] }

LvlQueries ==
    { [NoQuery EXCEPT !.level = l, !.date = d, !.zone = z] :
        l \in {Undef, "", "abc", "4", "7", " "},
        d \in {Undef, "d1"}, z \in {Undef, "Palermo"} }

LvlListNext ==
    \/ LvlNextOver(BothUsers, BothProfileReqs, LvlListBodies, MatchIds)
    \/ \E s \in Slots, q \in LvlQueries : LvlList_get(s, q)

SpecLevelList == InitLegacy /\ [][LvlListNext]_vars

\* a query parameter that was given
Given(x) == x \notin {Undef, ""}

\* the numeric levels of the queries, in half-point units
NumericLevel == ("0" :> 0) @@ ("4" :> 8) @@ ("4.5" :> 9) @@ ("7" :> 14)

\* the listing answers with stored matches, at most 50, of the date and zone asked
ListedAsAsked(q, items) ==
    /\ Len(items) <= 50
    /\ \A i \in 1..Len(items) :
        /\ items[i] \in DOMAIN matches
        /\ Given(q.date) => Field(matches[items[i]], "date") = q.date
        /\ Given(q.zone) => Field(matches[items[i]], "zone") = q.zone

(* C12: GET /matches returns at most 50 matches; when a level is given every
   returned match has levelMin <= N and levelMax >= N or no numeric levelMax
   (band ranks in the band-based revision); when date or zone are given
   every returned match has that date and zone; the store is not modified.
   Stated for the band-based revision; C12_ListingSound_Level states it for
   the level-aware one, where every returned match is also 'open'. *)
C12_ListingSound ==
    [][\A s \in Slots, q \in BandQueries :
        (BandList_get(s, q) /\ resp'.code = 200)
            => /\ matches' = matches
               /\ ListedAsAsked(q, resp'.items)
               /\ q.levelBand \in DOMAIN BAND_RANK =>
                    \A i \in 1..Len(resp'.items) :
                        LET m == matches[resp'.items[i]]
                        IN  /\ m.levelMinRank # Null
                            /\ m.levelMinRank <= BAND_RANK[q.levelBand]
                            /\ (m.levelMaxRank = Null
                                    \/ m.levelMaxRank >= BAND_RANK[q.levelBand])]_vars

C12_ListingSound_Level ==
    [][\A s \in Slots, q \in LvlQueries :
        LvlList_get(s, q)
            => /\ matches' = matches
               /\ resp'.code = 200
               /\ ListedAsAsked(q, resp'.items)
               /\ \A i \in 1..Len(resp'.items) : matches[resp'.items[i]].status = "open"
               /\ q.level \in DOMAIN NumericLevel =>
                    \A i \in 1..Len(resp'.items) :
                        LET m == matches[resp'.items[i]]
                        IN  /\ m.levelMin # NaN
                            /\ m.levelMin <= NumericLevel[q.level]
                            /\ (m.levelMax = NaN
                                    \/ m.levelMax >= NumericLevel[q.level])]_vars

\* a level-aware listing by level returned a match without a numeric levelMax
C12_Witness_Level ==
    /\ resp.kind = "list"
    /\ Len(resp.items) = 2
    /\ \E i \in 1..2 : matches[resp.items[i]].levelMax = NaN

(* C13: in the band-based revision a PUT or DELETE on /matches/:id by a
   caller other than createdBy is answered 403 and changes nothing; on a
   match that does not exist it is answered 404; no step of an edit or a
   delete handler of another caller writes the match; and a match leaves
   the store only in the delete step of a DELETE issued by its creator. *)
C13_CreatorOnly ==
    [][/\ \A s \in Slots, u \in BandEditUsers, id \in MatchIds :
            /\ \A p \in BandEditBodies :
                    BandEdit_get(s, u, id, p) =>
                        /\ ~Exists(id) =>
                                Ended(s) /\ resp'.code = 404 /\ matches' = matches
                        /\ (Exists(id) /\ matches[id].createdBy # u) =>
                                Ended(s) /\ resp'.code = 403 /\ matches' = matches
            /\ BandDelete_get(s, u, id) =>
                    /\ ~Exists(id) =>
                            Ended(s) /\ resp'.code = 404 /\ matches' = matches
                    /\ (Exists(id) /\ matches[id].createdBy # u) =>
                            Ended(s) /\ resp'.code = 403 /\ matches' = matches
       /\ \A s \in Slots :
            (/\ req[s].kind \in {"edit", "delete"}
             /\ req'[s] # req[s]
             /\ Exists(req[s].id)
             /\ matches[req[s].id].createdBy # req[s].uid) => matches' = matches
       /\ \A id \in DOMAIN matches :
            id \notin DOMAIN matches' =>
                \E s \in Slots :
                    /\ At(s, "delete", "delete") /\ Ended(s)
                    /\ req[s].id = id
                    /\ req[s].uid = matches[id].createdBy]_vars

\* the edit of a caller who is not the creator was answered 403 while the
\* creator's own delete of the match is in flight
C13_Witness ==
    /\ resp = [kind |-> "edit", code |-> 403, msg |-> "No autorizado"]
    /\ \E s \in Slots : At(s, "delete", "delete") /\ Exists(req[s].id)

EditableFields == {"title", "date", "time", "location", "zone", "levelMin", "levelMax"}

(* C14: in the band-based revision, when the write of a creator's edit is
   applied, every editable field the request omitted (and the rank of an
   omitted bound) holds the value it had in the store immediately before
   the write, and players, status, maxPlayers and createdBy are unchanged;
   also for two edits of the same match that interleave. *)
C14_PartialMerge ==
    [][\A s \in Slots :
        (At(s, "edit", "update") /\ BandEdit_update(s) /\ Exists(req[s].id)) =>
            LET before == matches[req[s].id]
                after == matches'[req[s].id]
                body == req[s].loc.body
            IN  /\ \A f \in EditableFields : body[f] = Undef => after[f] = before[f]
                /\ body.levelMin = Undef => after.levelMinRank = before.levelMinRank
                /\ body.levelMax = Undef => after.levelMaxRank = before.levelMaxRank
                /\ after.players = before.players
                /\ after.status = before.status
                /\ after.maxPlayers = before.maxPlayers
                /\ after.createdBy = before.createdBy]_vars

\* the part of C14 on the fields an edit never writes
C14_EditFrame ==
    [][\A s \in Slots :
        (At(s, "edit", "update") /\ BandEdit_update(s) /\ Exists(req[s].id)) =>
            LET before == matches[req[s].id]
                after == matches'[req[s].id]
            IN  /\ after.players = before.players
                /\ after.status = before.status
                /\ after.maxPlayers = before.maxPlayers
                /\ after.createdBy = before.createdBy]_vars

(* C15: in every reachable state every stored match has status 'open' or
   'full'.  Stated for the earlier minimal revision, whose create keeps the
   status of the request body; C15_StatusDomain_Band and
   C15_StatusDomain_Level state it for the other two revisions. *)
C15_StatusDomain ==
    \A id \in DOMAIN matches : matches[id].status \in {"open", "full"}

C15_StatusDomain_Band ==
    \A id \in DOMAIN matches : matches[id].status = "open" \/ matches[id].status = "full"

C15_StatusDomain_Level ==
    {matches[id].status : id \in DOMAIN matches} \subseteq {"open", "full"}

\* level parameters that are missing or for which Number(level) is NaN
NonNumericLevels == {Undef, "", "abc"}

(* C16: a GET /matches whose level parameter is missing or names no band
   (band-based revision) gets exactly the response of the same request
   without the parameter, and no error, whatever the store holds.
   C16_NoLevelFilter_Level states it for the level-aware revision and a
   level that is missing or not a number. *)
C16_NoLevelFilter ==
    [][\A s \in Slots, q \in BandQueries :
        (BandList_get(s, q) /\ q.levelBand \notin DOMAIN BAND_RANK)
            => /\ resp'.code = 200
               /\ resp' = BandListResp([q EXCEPT !.levelBand = Undef])]_vars

C16_NoLevelFilter_Level ==
    [][\A s \in Slots, q \in LvlQueries :
        (LvlList_get(s, q) /\ q.level \in NonNumericLevels)
            => /\ resp'.code = 200
               /\ resp' = LvlListResp([q EXCEPT !.level = Undef])]_vars

\* a listing by date and zone was answered with a match while a level filter
\* would have answered with none
C16_Witness_Level ==
    /\ resp.kind = "list"
    /\ Len(resp.items) = 1
    /\ LvlListItems([NoQuery EXCEPT !.level = "0"]) = <<>>
    /\ LvlListItems([NoQuery EXCEPT !.level = "abc", !.zone = "Palermo"]) = resp.items

(***************************************************************************)
(* POST /profiles/me alone: two callers, names that are missing, empty,    *)
(* blank or padded, and levels inside and outside 1..7                     *)
(***************************************************************************)
ProfileUsers == {"u1", "u2"}

ProfileBodies ==
    { [displayName |-> n, level |-> l, zone |-> z] :
        n \in {Undef, "", "  ", " A ", "A"},
        l \in {NaN, MinLevel - 1, MinLevel, 9, MaxLevel, MaxLevel + 1},
        z \in {Undef, "Palermo"} }

ProfileNext ==
    \E s \in Slots, u \in ProfileUsers, b \in ProfileBodies : LvlProfile_set(s, u, b)

SpecProfile == Init /\ [][ProfileNext]_vars

\* a request the profile handler has to reject
MustRejectProfile(b) ==
    \/ b.displayName \in {Undef, "", "  "}
    \/ b.level = NaN
    \/ b.level < 2
    \/ b.level > 14

(* C17: after any sequence of POST /profiles/me there is one profile per
   identity at most, stored under its owner's uid and written only by
   requests of that owner, with a numeric level between 1 and 7; a request
   with an empty displayName or a level that is not a number or outside
   [1, 7] is answered 400 and changes no profile. *)
C17_ProfileStore ==
    [][\A s \in Slots, u \in ProfileUsers, b \in ProfileBodies :
        LvlProfile_set(s, u, b) =>
            /\ \A v \in DOMAIN profiles' :
                    /\ profiles'[v].uid = v
                    /\ profiles'[v].level \in 2..14
            /\ \A v \in ProfileUsers :
                    Cardinality({w \in DOMAIN profiles' : profiles'[w].uid = v}) <= 1
            /\ \A v \in ProfileUsers \ {u} :
                    /\ v \in DOMAIN profiles' <=> v \in DOMAIN profiles
                    /\ v \in DOMAIN profiles => profiles'[v] = profiles[v]
            /\ MustRejectProfile(b) => resp'.code = 400 /\ profiles' = profiles
            /\ ~MustRejectProfile(b) =>
                    /\ resp'.code = 200
                    /\ u \in DOMAIN profiles'
                    /\ profiles'[u].level = b.level
            /\ matches' = matches]_vars

\* both callers hold a profile, u1's was replaced, and a level of 7.5 was
\* answered 400
C17_Witness ==
    /\ DOMAIN profiles = ProfileUsers
    /\ profiles["u1"].level = MaxLevel /\ profiles["u1"].zone = "Palermo"
    /\ profiles["u2"].level = MinLevel
    /\ resp = [kind |-> "profile", code |-> 400, msg |-> "level debe estar entre 1 y 7"]

(***************************************************************************)
(* Joins and leaves of both revisions on the shared collection: the        *)
(* band-based handlers are sent the id of a band-based match stored        *)
(* before, the level-aware handlers the ids of the matches they create.    *)
(***************************************************************************)
\* a band-based match of u0 that u4 and u5 have joined
RaceDoc == [BandDocData("u0", NoBody) EXCEPT !.players = <<"u0", "u4", "u5">>]

InitRace ==
    /\ matches = (LegacyId :> RaceDoc)
    /\ nextId = 0
    /\ profiles = <<>>
    /\ req = [s \in Slots |-> Idle]
    /\ resp = NoResp

RaceProfileReqs ==
    { <<"u1", ProfileBody(8)>>, <<"u2", ProfileBody(9)>>, <<"u3", ProfileBody(8)>> }

RaceUsers == {"u1", "u2"}

RaceNext ==
    \/ \E s \in Slots, u \in RaceUsers : BandJoin_get(s, u, LegacyId)
    \/ \E s \in Slots : req[s].id = LegacyId /\ BandJoin_update(s)
    \/ \E s \in Slots, u \in RaceUsers : BandLeave_get(s, u, LegacyId)
    \/ \E s \in Slots : BandLeave_update(s)
    \/ \E s \in Slots, r \in RaceProfileReqs : LvlProfile_set(s, r[1], r[2])
    \/ \E s \in Slots, u \in LvlUsers, b \in LvlCreateBodies : LvlCreate_profile(s, u, b)
    \/ \E s \in Slots : LvlCreate_add(s)
    \/ \E s \in Slots : LvlCreate_get(s)
    \/ \E s \in Slots, u \in LvlUsers, id \in MatchIds : LvlJoin_profile(s, u, id)
    \/ \E s \in Slots : LvlJoin_get(s)
    \/ \E s \in Slots : req[s].id # LegacyId /\ LvlJoin_update(s)
    \/ \E s \in Slots : LvlJoin_reget(s)
    \/ \E s \in Slots : LvlJoin_full(s)

SpecRace == InitRace /\ [][RaceNext]_vars

\* slot s holds a join that passed the capacity check on its read of the match
PassedCapacity(s) == At(s, "join", "update") /\ Exists(req[s].id)

(* C18: a join that has read the match and passed the capacity check writes
   its caller into players whatever the match holds by then: when another
   join has filled the match in between, the write is still applied and the
   match ends with maxPlayers + 1 players, in the band-based and in the
   level-aware revision.  The witness is the state both races end in. *)
C18_JoinRace ==
    [][\A s \in Slots :
        LET id == req[s].id
            uid == req[s].uid
        IN  /\ (/\ PassedCapacity(s) /\ id = LegacyId
                /\ BandJoin_update(s)
                /\ uid \notin Range(matches[id].players)
                /\ Len(matches[id].players) = matches[id].maxPlayers)
                    => /\ Len(req[s].loc.players) = matches[id].maxPlayers - 1
                       /\ Len(matches'[id].players) = matches[id].maxPlayers + 1
                       /\ uid \in Range(matches'[id].players)
                       /\ resp'.code = 200
            /\ (/\ PassedCapacity(s) /\ id # LegacyId
                /\ LvlJoin_update(s)
                /\ uid \notin Range(matches[id].players)
                /\ Len(matches[id].players) = matches[id].maxPlayers)
                    => /\ Len(matches'[id].players) = matches[id].maxPlayers + 1
                       /\ uid \in Range(matches'[id].players)
                       /\ Proceeds(s, "reget")]_vars

\* both races have run: the band-based match of four holds five players and
\* the level-aware '1v1' match holds three
C18_Witness ==
    /\ Len(matches[LegacyId].players) = matches[LegacyId].maxPlayers + 1
    /\ \E id \in DOMAIN matches \ {LegacyId} :
            /\ matches[id].maxPlayers = 2
            /\ Len(matches[id].players) = 3
    /\ \A s \in Slots : IsIdle(s)

(* C19: no reachable state of the store has a match whose players array has
   reached maxPlayers while its status is still 'open': the join writes the
   member and the status as one update.  Stated for the level-aware
   revision, whose join writes players, reads again and writes status. *)
C19_AtomicJoin ==
    \A id \in DOMAIN matches :
        Len(matches[id].players) = LvlMaxPlayers(matches[id]) => matches[id].status # "open"

(***************************************************************************)
(* Requests served one at a time: a slot takes a step only when no handler *)
(* is in flight in another slot.                                           *)
(***************************************************************************)
Alone(s) == \A t \in Slots \ {s} : IsIdle(t)

SerialNext ==
    \/ \E s \in Slots, u \in BandUsers : Alone(s) /\ BandJoin_get(s, u, LegacyId)
    \/ \E s \in Slots : Alone(s) /\ req[s].id = LegacyId /\ BandJoin_update(s)
    \/ \E s \in Slots, u \in BandUsers : Alone(s) /\ BandLeave_get(s, u, LegacyId)
    \/ \E s \in Slots : Alone(s) /\ BandLeave_update(s)
    \/ \E s \in Slots, r \in RaceProfileReqs : Alone(s) /\ LvlProfile_set(s, r[1], r[2])
    \/ \E s \in Slots, u \in LvlUsers, b \in LvlCreateBodies :
            Alone(s) /\ LvlCreate_profile(s, u, b)
    \/ \E s \in Slots : Alone(s) /\ LvlCreate_add(s)
    \/ \E s \in Slots : Alone(s) /\ LvlCreate_get(s)
    \/ \E s \in Slots, u \in LvlUsers, id \in MatchIds :
            Alone(s) /\ LvlJoin_profile(s, u, id)
    \/ \E s \in Slots : Alone(s) /\ LvlJoin_get(s)
    \/ \E s \in Slots : Alone(s) /\ req[s].id # LegacyId /\ LvlJoin_update(s)
    \/ \E s \in Slots : Alone(s) /\ LvlJoin_reget(s)
    \/ \E s \in Slots : Alone(s) /\ LvlJoin_full(s)

SpecSerial == InitBandStored /\ [][SerialNext]_vars

(* C20: when requests are served one at a time, every match created by the
   band-based or the level-aware create handler has
   players.length <= maxPlayers in every reachable state, and a join that
   reads players.length >= maxPlayers is answered 400 on that read and
   writes nothing. *)
C20_SerialCapacity ==
    [][/\ \A id \in DOMAIN matches' :
            Len(matches'[id].players) <= matches'[id].maxPlayers
       /\ \A s \in Slots, u \in BandUsers :
            (/\ BandJoin_get(s, u, LegacyId)
             /\ Len(matches[LegacyId].players) >= matches[LegacyId].maxPlayers)
                => Ended(s) /\ resp'.code = 400 /\ matches' = matches
       /\ \A s \in Slots :
            (/\ At(s, "join", "get") /\ LvlJoin_get(s)
             /\ Exists(req[s].id)
             /\ Len(matches[req[s].id].players) >= matches[req[s].id].maxPlayers)
                => Ended(s) /\ resp'.code = 400 /\ matches' = matches]_vars

\* both matches are full and the band-based join of a fifth player was
\* answered 'Partido lleno'
C20_Witness ==
    /\ Len(matches[LegacyId].players) = 4 /\ matches[LegacyId].status = "full"
    /\ \E id \in DOMAIN matches \ {LegacyId} :
            Len(matches[id].players) = 2 /\ matches[id].status = "full"
    /\ resp = [kind |-> "join", code |-> 400, msg |-> "Partido lleno"]

(***************************************************************************)
(* The level-aware handlers when every handler in flight goes on to its    *)
(* next store operation                                                    *)
(***************************************************************************)
LvlStep(s) ==
    \/ LvlCreate_add(s)
    \/ LvlCreate_get(s)
    \/ LvlJoin_get(s)
    \/ LvlJoin_update(s)
    \/ LvlJoin_reget(s)
    \/ LvlJoin_full(s)

SpecLevelFair == SpecLevel /\ \A s \in Slots : WF_vars(LvlStep(s))

\* the players array of match id has reached maxPlayers
Filled(id) == Exists(id) /\ Len(matches[id].players) >= matches[id].maxPlayers

IsFull(id) == Exists(id) /\ matches[id].status = "full"

(* C21: in the level-aware revision, once the status of a match is 'full'
   no further join is admitted: no step adds a player to it.  The other two
   parts of the claim are C21_EventuallyFull (a match whose players array
   has reached maxPlayers eventually has status 'full', when handlers in
   flight keep taking their steps) and C21_StaysFull (a 'full' match stays
   'full'). *)
C21_NoJoinOnceFull ==
    [][\A id \in DOMAIN matches :
        matches[id].status = "full" =>
            id \in DOMAIN matches' /\ matches'[id].players = matches[id].players]_vars

C21_EventuallyFull == \A id \in MatchIds : Filled(id) ~> IsFull(id)

C21_StaysFull ==
    [][\A id \in DOMAIN matches : matches[id].status = "full" => IsFull(id)']_vars

\* once 'full', no join that reads the match goes on to its write
C21_NoJoinReadsOpen ==
    [][\A s \in Slots :
        (At(s, "join", "get") /\ LvlJoin_get(s) /\ IsFull(req[s].id))
            => Ended(s) /\ resp'.code = 400 /\ matches' = matches]_vars

(* C22: in every reachable state the players array of a match holds no
   identity twice, for any interleaving of joins and leaves of both
   revisions, two joins of one identity that both passed the 'already
   joined' check before either wrote included. *)
C22_NoDuplicates ==
    \A id \in DOMAIN matches :
        \A i, j \in 1..Len(matches[id].players) :
            matches[id].players[i] = matches[id].players[j] => i = j

\* two joins of one identity on one match have both applied their write
C22_Witness ==
    \E s, t \in Slots :
        /\ s # t
        /\ At(s, "join", "reget") /\ At(t, "join", "reget")
        /\ req[s].uid = req[t].uid /\ req[s].id = req[t].id
        /\ Exists(req[s].id)
        /\ req[s].uid \in Range(matches[req[s].id].players)

\* this step is a step of a join or leave handler in slot s
JoinOrLeaveStep(s) ==
    \/ \E u \in RaceUsers : BandJoin_get(s, u, LegacyId)
    \/ At(s, "join", "update") /\ req[s].id = LegacyId /\ BandJoin_update(s)
    \/ \E u \in RaceUsers : BandLeave_get(s, u, LegacyId)
    \/ BandLeave_update(s)
    \/ \E u \in LvlUsers, id \in MatchIds : LvlJoin_profile(s, u, id)
    \/ LvlJoin_get(s)
    \/ At(s, "join", "update") /\ req[s].id # LegacyId /\ LvlJoin_update(s)
    \/ LvlJoin_reget(s)
    \/ LvlJoin_full(s)

FrameFields ==
    {"createdBy", "maxPlayers", "levelMin", "levelMax", "levelMinRank", "levelMaxRank",
     "title", "date", "time", "location", "zone", "mode"}

(* C23: a step of a join or leave handler, of a request that succeeds or
   of one that is rejected, changes no profile, stores and removes no
   match, changes no match but the one the request names, and in that one
   no field among createdBy, maxPlayers, levelMin, levelMax, the band
   ranks, title, date, time, location, zone and mode; the write of a join
   leaves players as it is or appends the caller, keeping every member in
   place; the write of a leave removes the caller only. *)
C23_JoinLeaveFrame ==
    [][\A s \in Slots :
        JoinOrLeaveStep(s) =>
            /\ profiles' = profiles
            /\ DOMAIN matches' = DOMAIN matches
            /\ \A id \in DOMAIN matches :
                LET m == matches[id]
                    n == matches'[id]
                IN  /\ DOMAIN n = DOMAIN m
                    /\ \A f \in FrameFields \cap DOMAIN m : n[f] = m[f]
                    /\ n # m => id = req[s].id /\ req[s].kind \in {"join", "leave"}
                    /\ (n.players # m.players /\ req[s].kind = "join")
                            => n.players = Append(m.players, req[s].uid)
                    /\ (n.players # m.players /\ req[s].kind = "leave")
                            => n.players = SelectSeq(m.players, LAMBDA x : x # req[s].uid)]_vars

\* u1 has joined and left the band-based match, which holds its three members
\* as before, next to a level-aware match that a join has filled
C23_Witness ==
    /\ resp = [kind |-> "leave", code |-> 200, msg |-> "Saliste del partido"]
    /\ matches[LegacyId].players = <<"u0", "u4", "u5">>
    /\ \E id \in DOMAIN matches \ {LegacyId} :
            Len(matches[id].players) = 2 /\ matches[id].status = "full"

\* add() handed out id and the match is no longer stored
Gone(id) == id <= nextId /\ ~Exists(id)

(* C24: in the band-based revision, once a match has been deleted no step
   stores a document under its id again; a join, leave or edit that read
   the match before the delete and writes after it is answered with an
   error and writes nothing; and every join, leave, edit or delete request
   that starts on the id after the delete is answered 404. *)
C24_StaysDeleted ==
    [][\A id \in MatchIds :
        Gone(id) =>
            /\ ~Exists(id)'
            /\ \A s \in Slots :
                (/\ req[s].id = id /\ req[s].pc = "update"
                 /\ req[s].kind \in {"join", "leave", "edit"}
                 /\ req'[s] # req[s])
                    => Ended(s) /\ resp'.code = 500 /\ matches' = matches
            /\ \A s \in Slots, u \in BandEditUsers :
                (\/ BandJoin_get(s, u, id)
                 \/ BandLeave_get(s, u, id)
                 \/ BandDelete_get(s, u, id)
                 \/ \E p \in BandEditBodies : BandEdit_get(s, u, id, p))
                    => Ended(s) /\ resp'.code = 404 /\ matches' = matches]_vars

\* the match was deleted while an edit that had read it was in flight, and
\* the edit's write was answered with an error
C24_Witness ==
    /\ Gone(1)
    /\ resp = [kind |-> "edit", code |-> 500, msg |-> "update failed"]

\* the same for a join that read the match before the delete
C24_Witness_Join ==
    /\ Gone(1)
    /\ resp = [kind |-> "join", code |-> 500, msg |-> "update failed"]

=============================================================================
